---- MODULE Spec2Model ----
(***************************************************************************)
(* Model of the SegmentationTF component (src/src/components/              *)
(* Segmentation.tsx): the readiness state (modelStatus, videoReadyRef,     *)
(* running), the camera and model initialisation effects with their        *)
(* cleanups, the requestAnimationFrame loop effect, and the asynchronous   *)
(* per-frame cycle started by processFrame.                                *)
(*                                                                         *)
(* One action is one JavaScript task or one React commit: a state setter   *)
(* together with the effects whose dependencies it changes, a promise      *)
(* continuation up to its next await, a DOM event handler, or one          *)
(* animation-frame callback.                                               *)
(***************************************************************************)
EXTENDS Naturals, Integers, Sequences, FiniteSets, TLC

\* Bound on the number of cycles processFrame starts in one behaviour.
MaxCycles == 2

\* Bound on the number of Image objects the background effect creates.
MaxImages == 2

\* Background options of the select element (lines 357-359):
\* 1 = green.png (the default, line 53), 2 = office.jpg.  The third option,
\* beach.jpg, is handled exactly as office.jpg is.
BackgroundUrls == 1..2
DefaultBackground == 1

\* Content of a canvas that shows nothing (initial bitmap, or after a resize
\* or clearRect); a positive value k is the composite drawn by cycle k.
Blank == 0

ModelStatuses == {"idle", "loading", "ready", "error"}

\* The shapes a resolved segmentation call can have (lines 218-238).
ResultShapes == {"empty", "noMask", "imageData", "toImageData"}

VARIABLES
  phase,          \* "rendered" (first commit done, effects not yet run), "mounted",
                  \* "unmounting" (removed from the tree, cleanups not yet run), "unmounted"
  modelStatus,    \* useState modelStatus
  running,        \* useState running
  runningRef,     \* runningRef.current
  videoReadyRef,  \* videoReadyRef.current
  errorMessage,   \* useState errorMessage: "", "camera" or "model"
  domRefs,        \* videoRef/canvasRef/offscreenRef .current are attached
  cameraPc,       \* position of initCamera
  stream,         \* the camera effect's local `stream`: 0 = null, 1 = the MediaStream
  streamStops,    \* how many times the MediaStream's tracks were stopped
  srcObject,      \* video.srcObject has been set to the stream
  listener,       \* the loadeddata listener is registered on the video
  videoWidth,     \* video.videoWidth: 0 until metadata is known, then 1
  modelPc,        \* position of initModel
  modelMounted,   \* the model effect's local `mounted`
  segmenterRef,   \* segmenterRef.current: 0 = null, 1 = the segmenter
  segCreated,     \* createSegmenter has produced the segmenter
  disposeCalls,   \* how many times segmenter.dispose was called
  rafCount,       \* number of pending requestAnimationFrame callbacks of loop
  loopActive,     \* the last run of the loop effect armed a loop (has a cleanup)
  cycles,         \* the cycles in flight
  scopeStack,     \* tf.engine() scope stack: ids of the cycles that opened each scope
  canvas,         \* what the output canvas shows
  nCycles,        \* number of cycles started so far
  maxDrawn,       \* the highest id among the cycles that have drawn, 0 if none
  loadedDataEvent,\* the video's loadeddata event: "none", "queued" (first frame decoded,
                  \* dispatch task pending) or "fired"
  bgUrl,          \* useState bgUrl
  bgImageRef,     \* bgImageRef.current: 0 = null, i = the i-th Image created
  images,         \* the Image objects created by the background effect, in order:
                  \* their url and whether they are loading, loaded or failed
  pxOp,           \* pixel pipeline under study: "idle", or the function whose
                  \* input is drawn ("gamma", "blur", "compose") / applied ("...Out")
  gammaIn,        \* input of enhanceGamma: [img, gamma]
  blurIn,         \* input of blurMask: [img, radius]
  compIn,         \* input of the compositing of processFrame:
                  \* [video, enhance, mask, bgPresent, bg]
  pxOut,          \* the ImageData the function produced
  pxMask          \* what the mask reconciliation of processFrame did:
                  \* [resampled, sized, final]

readyVars  == <<modelStatus, running, runningRef, videoReadyRef, errorMessage>>
cameraVars == <<cameraPc, stream, streamStops, srcObject, listener, videoWidth>>
modelVars  == <<modelPc, modelMounted, segmenterRef, segCreated, disposeCalls>>
loopVars   == <<rafCount, loopActive>>
cycleVars  == <<cycles, scopeStack, canvas, nCycles, maxDrawn>>
evVars     == <<loadedDataEvent>>
bgVars     == <<bgUrl, bgImageRef, images>>
pixVars    == <<pxOp, gammaIn, blurIn, compIn, pxOut, pxMask>>
componentVars == <<phase, domRefs, readyVars, cameraVars, modelVars, loopVars,
                   cycleVars, evVars, bgVars>>
vars == <<componentVars, pixVars>>

\* A cycle in flight: its position, what the canvas showed before its tick
\* (prev), and whether the video element has shown a newer frame since its
\* tick (staleFrame).
CycleRecords ==
  [id : 1..(MaxCycles + 1), pc : {"segment", "mask"}, prev : 0..(MaxCycles + 1),
   staleFrame : BOOLEAN]

TypeOK ==
  /\ phase \in {"rendered", "mounted", "unmounting", "unmounted"}
  /\ modelStatus \in ModelStatuses
  /\ running \in BOOLEAN /\ runningRef \in BOOLEAN /\ videoReadyRef \in BOOLEAN
  /\ errorMessage \in {"", "camera", "model"}
  /\ domRefs \in BOOLEAN
  /\ cameraPc \in {"none", "getUserMedia", "play", "done", "failed"}
  /\ stream \in 0..1 /\ streamStops \in Nat
  /\ srcObject \in BOOLEAN /\ listener \in BOOLEAN /\ videoWidth \in 0..1
  /\ modelPc \in {"none", "backend", "create", "done", "failed"}
  /\ modelMounted \in BOOLEAN /\ segmenterRef \in 0..1
  /\ segCreated \in BOOLEAN /\ disposeCalls \in Nat
  /\ rafCount \in Nat /\ loopActive \in BOOLEAN
  /\ cycles \subseteq CycleRecords
  /\ scopeStack \in Seq(1..(MaxCycles + 1))
  /\ canvas \in 0..(MaxCycles + 1)
  /\ nCycles \in 0..(MaxCycles + 1)
  /\ maxDrawn \in 0..(MaxCycles + 1)
  /\ loadedDataEvent \in {"none", "queued", "fired"}
  /\ bgUrl \in BackgroundUrls
  /\ bgImageRef \in 0..(MaxImages + 1)
  /\ images \in Seq([url : BackgroundUrls, state : {"loading", "loaded", "failed"}])

ComponentInit ==
  /\ phase = "rendered"
  /\ modelStatus = "idle"
  /\ running = FALSE
  /\ runningRef = FALSE
  /\ videoReadyRef = FALSE
  /\ errorMessage = ""
  /\ domRefs = TRUE
  /\ cameraPc = "none"
  /\ stream = 0
  /\ streamStops = 0
  /\ srcObject = FALSE
  /\ listener = FALSE
  /\ videoWidth = 0
  /\ modelPc = "none"
  /\ modelMounted = FALSE
  /\ segmenterRef = 0
  /\ segCreated = FALSE
  /\ disposeCalls = 0
  /\ rafCount = 0
  /\ loopActive = FALSE
  /\ cycles = {}
  /\ scopeStack = <<>>
  /\ canvas = Blank
  /\ nCycles = 0
  /\ maxDrawn = 0
  /\ loadedDataEvent = "none"
  /\ bgUrl = DefaultBackground
  /\ bgImageRef = 0
  /\ images = <<>>

----------------------------------------------------------------------------
(* The loop effect, lines 306-323 *)

\* The condition under which the loop effect arms the loop (line 308).
LoopGateNoVideoCheck(ms, vr, run) == ms = "ready" /\ run
LoopGate(ms, vr, run) == ms = "ready" /\ vr /\ run

\* The effect's cleanup (lines 320-322): cancel the pending callback.
LoopCleanupNoCancel(n, active) == n
LoopCleanup(n, active) == IF active /\ n > 0 THEN n - 1 ELSE n

\* The loop effect re-run after a commit that changed modelStatus or running:
\* cleanup of the previous run, then the body with the new values.
LoopEffectNoCleanup(ms, run) ==
  /\ rafCount' = rafCount + (IF LoopGate(ms, videoReadyRef, run) THEN 1 ELSE 0)
  /\ loopActive' = LoopGate(ms, videoReadyRef, run)
LoopEffect(ms, run) ==
  /\ rafCount' = LoopCleanup(rafCount, loopActive)
                   + (IF LoopGate(ms, videoReadyRef, run) THEN 1 ELSE 0)
  /\ loopActive' = LoopGate(ms, videoReadyRef, run)

\* A commit of new state: the effects whose dependencies changed are re-run
\* while the component is in the tree.
Commit(ms, run) ==
  IF phase = "mounted" THEN LoopEffect(ms, run) ELSE UNCHANGED loopVars

\* loop (lines 313-316): the callback that fired is consumed, and after
\* processFrame returns the next one is requested.
LoopRearmOneShot(n) == n - 1
LoopRearm(n) == (n - 1) + 1

----------------------------------------------------------------------------
(* Background effect, lines 81-92 *)

\* What the effect body does to bgImageRef.current when it creates the Image
\* `img` (lines 82-84): nothing, the ref is written by onload/onerror only.
BgRefOnSelectEager(ref, img) == img
BgRefOnSelect(ref, img) == ref

\* The effect body for the url `u`: a new Image starts loading.
BackgroundEffect(u) ==
  /\ images' = Append(images, [url |-> u, state |-> "loading"])
  /\ bgImageRef' = BgRefOnSelect(bgImageRef, Len(images) + 1)

\* The select's onChange (line 356): setBgUrl, then the effect for the new url.
SelectBackground(u) ==
  /\ phase = "mounted"
  /\ u # bgUrl
  /\ Len(images) < MaxImages
  /\ bgUrl' = u
  /\ BackgroundEffect(u)
  /\ UNCHANGED <<phase, domRefs, readyVars, cameraVars, modelVars, loopVars,
                 cycleVars, evVars, pixVars>>

\* img.onload (lines 85-87).
BgOnLoad(i) ==
  /\ i \in 1..Len(images) /\ images[i].state = "loading"
  /\ images' = [images EXCEPT ![i].state = "loaded"]
  /\ bgImageRef' = i
  /\ UNCHANGED <<phase, domRefs, readyVars, cameraVars, modelVars, loopVars,
                 cycleVars, evVars, bgUrl, pixVars>>

\* img.onerror (lines 88-91).
BgOnError(i) ==
  /\ i \in 1..Len(images) /\ images[i].state = "loading"
  /\ images' = [images EXCEPT ![i].state = "failed"]
  /\ bgImageRef' = 0
  /\ UNCHANGED <<phase, domRefs, readyVars, cameraVars, modelVars, loopVars,
                 cycleVars, evVars, bgUrl, pixVars>>

----------------------------------------------------------------------------
(* Mount: the effects run after the first commit *)

\* initModel's first statement (line 138).
InitModelStartNoLoading(ms) == ms
InitModelStart(ms) == "loading"

MountEffects ==
  /\ phase = "rendered"
  /\ phase' = "mounted"
  /\ runningRef' = running                      \* lines 76-78
  /\ BackgroundEffect(bgUrl)                    \* lines 81-92
  /\ cameraPc' = "getUserMedia"                 \* lines 103-105, 121
  /\ modelMounted' = TRUE                       \* line 135
  /\ modelStatus' = InitModelStart(modelStatus) \* line 138
  /\ modelPc' = "backend"                       \* line 139
  /\ LoopEffect(modelStatus', running)          \* lines 306-310
  /\ UNCHANGED <<domRefs, running, videoReadyRef, errorMessage,
                 stream, streamStops, srcObject, listener, videoWidth,
                 segmenterRef, segCreated, disposeCalls, cycleVars,
                 evVars, bgUrl, pixVars>>

----------------------------------------------------------------------------
(* Camera effect, lines 95-131 *)

GetUserMediaResolve ==
  /\ cameraPc = "getUserMedia"
  /\ stream' = 1
  /\ IF domRefs
       THEN /\ srcObject' = TRUE
            /\ listener' = TRUE
            /\ cameraPc' = "play"
       ELSE /\ cameraPc' = "done"
            /\ UNCHANGED <<srcObject, listener>>
  /\ UNCHANGED <<phase, domRefs, readyVars, streamStops, videoWidth,
                 modelVars, loopVars, cycleVars>>
  /\ UNCHANGED <<evVars, bgVars, pixVars>>

\* getUserMedia rejects: the catch block of initCamera (lines 115-118).
GetUserMediaRejectRetry ==
  /\ cameraPc = "getUserMedia"
  /\ cameraPc' = "getUserMedia"
  /\ errorMessage' = "camera"
  /\ UNCHANGED <<phase, domRefs, modelStatus, running, runningRef, videoReadyRef,
                 stream, streamStops, srcObject, listener, videoWidth,
                 modelVars, loopVars, cycleVars>>
  /\ UNCHANGED <<evVars, bgVars, pixVars>>

GetUserMediaReject ==
  /\ cameraPc = "getUserMedia"
  /\ cameraPc' = "failed"
  /\ errorMessage' = "camera"
  /\ UNCHANGED <<phase, domRefs, modelStatus, running, runningRef, videoReadyRef,
                 stream, streamStops, srcObject, listener, videoWidth,
                 modelVars, loopVars, cycleVars>>
  /\ UNCHANGED <<evVars, bgVars, pixVars>>

PlayResolve ==
  /\ cameraPc = "play"
  /\ cameraPc' = "done"
  /\ UNCHANGED <<phase, domRefs, readyVars, stream, streamStops, srcObject,
                 listener, videoWidth, modelVars, loopVars, cycleVars>>
  /\ UNCHANGED <<evVars, bgVars, pixVars>>

PlayReject ==
  /\ cameraPc = "play"
  /\ cameraPc' = "failed"
  /\ errorMessage' = "camera"
  /\ UNCHANGED <<phase, domRefs, modelStatus, running, runningRef, videoReadyRef,
                 stream, streamStops, srcObject, listener, videoWidth,
                 modelVars, loopVars, cycleVars>>
  /\ UNCHANGED <<evVars, bgVars, pixVars>>

\* The video element learns the dimensions of the live stream.
LoadedMetadata ==
  /\ srcObject /\ streamStops = 0
  /\ videoWidth = 0
  /\ videoWidth' = 1
  /\ UNCHANGED <<phase, domRefs, readyVars, cameraPc, stream, streamStops,
                 srcObject, listener, modelVars, loopVars, cycleVars>>
  /\ UNCHANGED <<evVars, bgVars, pixVars>>

\* The first frame of the live stream is decoded: the video element queues
\* the task that dispatches loadeddata.
FrameDecoded ==
  /\ srcObject /\ streamStops = 0
  /\ videoWidth > 0
  /\ loadedDataEvent = "none"
  /\ loadedDataEvent' = "queued"
  /\ UNCHANGED <<phase, domRefs, readyVars, cameraVars, modelVars, loopVars,
                 cycleVars, bgVars, pixVars>>

\* The live stream delivers a further frame: the video element shows it, so
\* every cycle in flight now has a frame older than the video's.  (With no
\* such cycle the step changes nothing the component keeps.)
NewFrame ==
  /\ srcObject /\ streamStops = 0
  /\ loadedDataEvent # "none"
  /\ \E c \in cycles : ~c.staleFrame
  /\ cycles' = {[c EXCEPT !.staleFrame = TRUE] : c \in cycles}
  /\ UNCHANGED <<scopeStack, canvas, nCycles, maxDrawn>>
  /\ UNCHANGED <<phase, domRefs, readyVars, cameraVars, modelVars, loopVars,
                 evVars, bgVars, pixVars>>

\* The queued loadeddata event is dispatched to the registered listener:
\* onLoadedData, lines 98-101.  A ref assignment causes no render, so no
\* effect is re-run.
LoadedData ==
  /\ loadedDataEvent = "queued"
  /\ listener
  /\ loadedDataEvent' = "fired"
  /\ videoReadyRef' = TRUE
  /\ UNCHANGED <<phase, domRefs, modelStatus, running, runningRef, errorMessage,
                 cameraVars, modelVars, loopVars, cycleVars, bgVars, pixVars>>

----------------------------------------------------------------------------
(* Model effect, lines 134-171 *)

\* tf.setBackend(...) and tf.ready() resolve (lines 139-140).
BackendResolve ==
  /\ modelPc = "backend"
  /\ modelPc' = "create"
  /\ UNCHANGED <<phase, domRefs, readyVars, cameraVars, modelMounted,
                 segmenterRef, segCreated, disposeCalls, loopVars, cycleVars>>
  /\ UNCHANGED <<evVars, bgVars, pixVars>>

\* setModelStatus('error') in the catch block (line 158).
InitModelFailStatusKeep(ms) == ms
InitModelFailStatus(ms) == "error"

\* The catch block of initModel (lines 155-159); the loop effect is re-run
\* when the component is still mounted.
InitModelCatch ==
  /\ modelPc' = "failed"
  /\ errorMessage' = "model"
  /\ modelStatus' = InitModelFailStatus(modelStatus)
  /\ Commit(modelStatus', running)
  /\ UNCHANGED <<phase, domRefs, running, runningRef, videoReadyRef, cameraVars,
                 modelMounted, segmenterRef, segCreated, disposeCalls, cycleVars>>

BackendReject ==
  /\ modelPc = "backend"
  /\ InitModelCatch
  /\ UNCHANGED <<evVars, bgVars, pixVars>>

\* createSegmenter resolves (lines 148-154).
CreateSegmenterResolveNoMountedCheck ==
  /\ modelPc = "create"
  /\ modelPc' = "done"
  /\ segCreated' = TRUE
  /\ segmenterRef' = 1
  /\ modelStatus' = "ready"
  /\ Commit("ready", running)
  /\ UNCHANGED <<phase, domRefs, running, runningRef, videoReadyRef, errorMessage,
                 cameraVars, modelMounted, disposeCalls, cycleVars>>
  /\ UNCHANGED <<evVars, bgVars, pixVars>>

CreateSegmenterResolve ==
  /\ modelPc = "create"
  /\ modelPc' = "done"
  /\ segCreated' = TRUE
  /\ IF ~modelMounted
       THEN /\ disposeCalls' = disposeCalls + 1
            /\ UNCHANGED <<segmenterRef, modelStatus, loopVars>>
       ELSE /\ segmenterRef' = 1
            /\ modelStatus' = "ready"
            /\ Commit("ready", running)
            /\ UNCHANGED disposeCalls
  /\ UNCHANGED <<phase, domRefs, running, runningRef, videoReadyRef, errorMessage,
                 cameraVars, modelMounted, cycleVars>>
  /\ UNCHANGED <<evVars, bgVars, pixVars>>

CreateSegmenterReject ==
  /\ modelPc = "create"
  /\ InitModelCatch
  /\ UNCHANGED <<evVars, bgVars, pixVars>>

----------------------------------------------------------------------------
(* The Start/Stop button, lines 371-373 *)

ClickToggle ==
  /\ phase = "mounted"
  /\ modelStatus = "ready"                      \* disabled={modelStatus !== 'ready'}
  /\ running' = ~running
  /\ runningRef' = running'                     \* lines 76-78
  /\ LoopEffect(modelStatus, running')          \* lines 306-323
  /\ UNCHANGED <<phase, domRefs, modelStatus, videoReadyRef, errorMessage,
                 cameraVars, modelVars, cycleVars>>
  /\ UNCHANGED <<evVars, bgVars, pixVars>>

----------------------------------------------------------------------------
(* processFrame, lines 174-303 *)

\* The guards of processFrame (lines 176-185).
ProcessFrameGuardSingleFlight ==
  /\ runningRef
  /\ domRefs
  /\ segmenterRef # 0
  /\ videoWidth # 0
  /\ cycles = {}
ProcessFrameGuard ==
  /\ runningRef
  /\ domRefs
  /\ segmenterRef # 0
  /\ videoWidth # 0

StartScope(s, id) == Append(s, id)
EndScope(s) == IF Len(s) > 0 THEN SubSeq(s, 1, Len(s) - 1) ELSE s

\* One animation-frame callback: loop (lines 313-316) calling processFrame up
\* to the first await of the cycle it starts (lines 174-211).
Tick ==
  /\ rafCount > 0
  /\ nCycles < MaxCycles
  /\ IF ProcessFrameGuard
       THEN /\ canvas' = Blank                  \* lines 191-192: the resize clears the bitmap
            /\ nCycles' = nCycles + 1
            /\ scopeStack' = StartScope(scopeStack, nCycles + 1)
            /\ cycles' = cycles \cup
                 {[id |-> nCycles + 1, pc |-> "segment", prev |-> canvas,
                   staleFrame |-> FALSE]}
            /\ UNCHANGED maxDrawn
       ELSE UNCHANGED cycleVars
  /\ rafCount' = LoopRearm(rafCount)
  /\ UNCHANGED <<phase, domRefs, readyVars, cameraVars, modelVars, loopActive>>
  /\ UNCHANGED <<evVars, bgVars, pixVars>>

\* A cycle leaves through an early return (lines 218, 238): finally only.
SkipCycleNoFinally(c) ==
  /\ cycles' = cycles \ {c}
  /\ UNCHANGED <<scopeStack, canvas, nCycles, maxDrawn>>
SkipCycle(c) ==
  /\ cycles' = cycles \ {c}
  /\ scopeStack' = EndScope(scopeStack)
  /\ UNCHANGED <<canvas, nCycles, maxDrawn>>

\* A cycle leaves through the catch block (lines 297-301).
CatchCycle(c) ==
  /\ cycles' = cycles \ {c}
  /\ scopeStack' = EndScope(scopeStack)
  /\ UNCHANGED <<canvas, nCycles, maxDrawn>>

\* A cycle composites and draws (lines 240-296), then finally.
DrawCycle(c) ==
  /\ cycles' = cycles \ {c}
  /\ canvas' = c.id
  /\ maxDrawn' = IF c.id > maxDrawn THEN c.id ELSE maxDrawn
  /\ scopeStack' = EndScope(scopeStack)
  /\ UNCHANGED nCycles

\* segmentPeople resolves (lines 211-238).
SegmentResolve(c, shape) ==
  /\ c \in cycles /\ c.pc = "segment"
  /\ CASE shape = "empty"       -> SkipCycle(c)
       [] shape = "noMask"      -> SkipCycle(c)
       [] shape = "imageData"   -> DrawCycle(c)
       [] shape = "toImageData" ->
            /\ cycles' = (cycles \ {c}) \cup {[c EXCEPT !.pc = "mask"]}
            /\ UNCHANGED <<scopeStack, canvas, nCycles, maxDrawn>>
  /\ UNCHANGED <<phase, domRefs, readyVars, cameraVars, modelVars, loopVars>>
  /\ UNCHANGED <<evVars, bgVars, pixVars>>

SegmentReject(c) ==
  /\ c \in cycles /\ c.pc = "segment"
  /\ CatchCycle(c)
  /\ UNCHANGED <<phase, domRefs, readyVars, cameraVars, modelVars, loopVars>>
  /\ UNCHANGED <<evVars, bgVars, pixVars>>

\* mask.toImageData() / toCanvasImageSource() resolves (lines 226-238).
MaskResolve(c, got) ==
  /\ c \in cycles /\ c.pc = "mask"
  /\ IF got THEN DrawCycle(c) ELSE SkipCycle(c)
  /\ UNCHANGED <<phase, domRefs, readyVars, cameraVars, modelVars, loopVars>>
  /\ UNCHANGED <<evVars, bgVars, pixVars>>

MaskReject(c) ==
  /\ c \in cycles /\ c.pc = "mask"
  /\ CatchCycle(c)
  /\ UNCHANGED <<phase, domRefs, readyVars, cameraVars, modelVars, loopVars>>
  /\ UNCHANGED <<evVars, bgVars, pixVars>>

----------------------------------------------------------------------------
(* Unmount: React removes the component from the tree and detaches the     *)
(* refs; the effect cleanups run afterwards, in declaration order.          *)

UnmountCommit ==
  /\ phase = "mounted"
  /\ phase' = "unmounting"
  /\ domRefs' = FALSE
  /\ UNCHANGED <<readyVars, cameraVars, modelVars, loopVars, cycleVars>>
  /\ UNCHANGED <<evVars, bgVars, pixVars>>

UnmountCleanup ==
  /\ phase = "unmounting"
  /\ phase' = "unmounted"
  \* camera cleanup, lines 123-130 (videoRef.current is already null)
  /\ streamStops' = IF stream # 0 THEN streamStops + 1 ELSE streamStops
  /\ listener' = IF domRefs THEN FALSE ELSE listener
  /\ videoReadyRef' = FALSE
  \* model cleanup, lines 162-170
  /\ modelMounted' = FALSE
  /\ disposeCalls' = IF segmenterRef # 0 THEN disposeCalls + 1 ELSE disposeCalls
  /\ segmenterRef' = 0
  \* loop cleanup, lines 320-322
  /\ rafCount' = LoopCleanup(rafCount, loopActive)
  /\ loopActive' = FALSE
  /\ UNCHANGED <<domRefs, modelStatus, running, runningRef, errorMessage,
                 cameraPc, stream, srcObject, videoWidth,
                 modelPc, segCreated, cycleVars>>
  /\ UNCHANGED <<evVars, bgVars, pixVars>>

----------------------------------------------------------------------------

(* Pixel buffers: ImageData is [width, height, data], data a function from  *)
(* the pixel index y * width + x to the pixel <<r, g, b, a>>.               *)

\* Bounds on the buffers the pixel functions are applied to.
MaxBlurWidth == 3
MaxBlurHeight == 2
MaxRadius == 2
MaxGammaPixels == 2
MaxCanvas == 2
MaxBgWidth == 4
MaxBgHeight == 2
MaxMask == 2

Min2(a, b) == IF a < b THEN a ELSE b
Max2(a, b) == IF a > b THEN a ELSE b

RECURSIVE Pow(_, _)
Pow(b, e) == IF e = 0 THEN 1 ELSE b * Pow(b, e - 1)

\* Conversion of a non-negative quotient n / d to an 8-bit channel value:
\* Math.round (line 43) and the store into a Uint8ClampedArray.
RoundDiv(n, d) == (2 * n + d) \div (2 * d)

ImageDataOf(w, h, f) == [width |-> w, height |-> h, data |-> f]

\* enhanceGamma, lines 13-23, for gamma = p / q with p >= q >= 1.  One
\* channel: v / 255 raised to 1 / gamma, times 255, clamped to 255 and stored
\* in the Uint8ClampedArray, which rounds to the nearest integer n:
\* n - 1/2 <= 255 * (v/255)^(q/p) < n + 1/2, that is
\* (2n - 1)^p <= 2^p * 255^(p-q) * v^q < (2n + 1)^p.
GammaChannelNoScale(v, p, q) == IF 2 * v >= 255 THEN 1 ELSE 0
GammaChannel(v, p, q) ==
  LET t == Pow(2, p) * Pow(255, p - q) * Pow(v, q)
      fits(n) == /\ (n = 0 \/ Pow(2 * n - 1, p) <= t)
                 /\ t < Pow(2 * n + 1, p)
  IN  CHOOSE n \in 0..255 : fits(n)

\* The loops of enhanceGamma: the three colour channels of every pixel.
EnhanceGammaAllChannels(img, p, q) ==
  [img EXCEPT !.data =
     [i \in DOMAIN img.data |->
        [c \in 1..4 |-> GammaChannel(img.data[i][c], p, q)]]]
EnhanceGamma(img, p, q) ==
  [img EXCEPT !.data =
     [i \in DOMAIN img.data |->
        <<GammaChannel(img.data[i][1], p, q),
          GammaChannel(img.data[i][2], p, q),
          GammaChannel(img.data[i][3], p, q),
          img.data[i][4]>>]]

\* The default gamma of enhanceGamma (line 13): 1.5 = 3/2.
DefaultGammaNum == 3
DefaultGammaDen == 2

\* blurMask, lines 25-50.
\* tmp[i] = data[i * 4 + 3] (lines 29-31).
BlurTmpRedChannel(img, i) == img.data[i][1]
BlurTmp(img, i) == img.data[i][4]

\* The pixels visited by the two inner loops (lines 37-38).
BlurWindowNoLowerRows(x, y, w, h, r) ==
  {<<xx, yy>> \in (Max2(0, x - r)..Min2(w - 1, x + r)) \X (Max2(0, y - r)..Min2(h - 1, y))
     : TRUE}
BlurWindow(x, y, w, h, r) ==
  (Max2(0, x - r)..Min2(w - 1, x + r)) \X (Max2(0, y - r)..Min2(h - 1, y + r))

RECURSIVE BlurSum(_, _)
BlurSum(img, win) ==
  IF win = {} THEN 0
  ELSE LET c == CHOOSE c \in win : TRUE
       IN  BlurTmp(img, c[2] * img.width + c[1]) + BlurSum(img, win \ {c})

BlurMask(img, r) ==
  LET w == img.width
      h == img.height
  IN  ImageDataOf(w, h,
        [i \in 0..(w * h - 1) |->
           LET win == BlurWindow(i % w, i \div w, w, h, r)
           IN  <<0, 0, 0, RoundDiv(BlurSum(img, win), Cardinality(win))>>])

\* Compositing, lines 263-296.
\* The bitmap of a canvas stores premultiplied colour: a pixel of alpha 0
\* reads back as transparent black.
CanvasPixel(px) == IF px[4] = 0 THEN <<0, 0, 0, 0>> ELSE px

\* ctx.fillStyle = 'green' (line 267): rgb(0, 128, 0), opaque.
FallbackFill == <<0, 128, 0, 255>>

\* The source pixel that ctx.drawImage(img, 0, 0, width, height) (line 265)
\* maps to the centre of destination pixel (x, y): the image is stretched to
\* the destination rectangle.
StretchIndex(x, y, w, h, bw, bh) ==
  Min2(bh - 1, ((2 * y + 1) * bh) \div (2 * h)) * bw
    + Min2(bw - 1, ((2 * x + 1) * bw) \div (2 * w))

\* The canvas after clearRect and the background draw (lines 263-269).
Backdrop(w, h, bgPresent, bg) ==
  [i \in 0..(w * h - 1) |->
     IF bgPresent
       THEN CanvasPixel(bg.data[StretchIndex(i % w, i \div w, w, h,
                                             bg.width, bg.height)])
       ELSE FallbackFill]

\* The `out` ImageData (lines 279-287): colour from the video, alpha from
\* the mask.
ForegroundOut(w, h, fg, mask) ==
  [i \in 0..(w * h - 1) |->
     <<fg.data[i][1], fg.data[i][2], fg.data[i][3], mask.data[i][4]>>]

\* ctx.drawImage(temp, ...) (line 295): source-over of the pixel src on dst.
SourceOver(src, dst) ==
  LET a  == src[4]
      ab == dst[4]
      A  == 255 * a + ab * (255 - a)
      ch(c) == RoundDiv(src[c] * a * 255 + dst[c] * ab * (255 - a), A)
  IN  IF A = 0 THEN <<0, 0, 0, 0>>
      ELSE <<ch(1), ch(2), ch(3), RoundDiv(A, 255)>>

Compose(w, h, fg, mask, bgPresent, bg) ==
  LET back == Backdrop(w, h, bgPresent, bg)
      out  == ForegroundOut(w, h, fg, mask)
  IN  ImageDataOf(w, h, [i \in 0..(w * h - 1) |-> SourceOver(out[i], back[i])])

\* What processFrame puts on the offscreen canvas (lines 194-204): the video
\* frame, gamma-corrected when the enhancement is 'gamma'.
OffscreenFrame(video, enhance) ==
  IF enhance = "gamma"
    THEN EnhanceGamma(video, DefaultGammaNum, DefaultGammaDen)
    ELSE video

\* The foreground that is composited (lines 271-277): drawn from the video
\* element again, not from the offscreen canvas.
ForegroundFrame(video, offscreen) == video

\* Mask reconciliation, lines 240-261.
\* The test of line 246.
NeedsResampleWidthOnly(mw, mh, w, h) == mw # w
NeedsResample(mw, mh, w, h) == mw # w \/ mh # h

\* One axis of the smoothed drawImage of line 254, for destination index k of
\* n and a source of m samples: the source position under the centre of k,
\* (k + 1/2) * m / n - 1/2, clamped to the source, as the sample below it
\* (lo), the one above (hi) and the weight of hi in units of 1 / (2n).
AxisSample(k, n, m) ==
  LET pos == Min2(Max2((2 * k + 1) * m - n, 0), (m - 1) * 2 * n)
      lo  == pos \div (2 * n)
  IN  [lo |-> lo, hi |-> Min2(lo + 1, m - 1), wt |-> pos - lo * 2 * n]

\* tctx.drawImage(maskCanvas, 0, 0, width, height) with image smoothing
\* (lines 252-254): bilinear interpolation of the source at the centres of
\* the destination pixels.
Resample(img, w, h) ==
  LET at(x, y, ch) == img.data[y * img.width + x][ch]
      px(i) ==
        LET ax == AxisSample(i % w, w, img.width)
            ay == AxisSample(i \div w, h, img.height)
            v(ch) ==
              RoundDiv(  at(ax.lo, ay.lo, ch) * (2 * w - ax.wt) * (2 * h - ay.wt)
                       + at(ax.hi, ay.lo, ch) * ax.wt * (2 * h - ay.wt)
                       + at(ax.lo, ay.hi, ch) * (2 * w - ax.wt) * ay.wt
                       + at(ax.hi, ay.hi, ch) * ax.wt * ay.wt,
                       4 * w * h)
        IN  <<v(1), v(2), v(3), v(4)>>
  IN  ImageDataOf(w, h, [i \in 0..(w * h - 1) |-> px(i)])

\* getImageData(0, 0, width, height) (line 261): the w x h rectangle at the
\* origin of the canvas, transparent black outside the bitmap.
GetImageData(img, w, h) ==
  ImageDataOf(w, h,
    [i \in 0..(w * h - 1) |->
       IF (i % w) < img.width /\ (i \div w) < img.height
         THEN img.data[(i \div w) * img.width + (i % w)]
         ELSE <<0, 0, 0, 0>>])

\* The radius of blurMask at line 261.
MaskBlurRadius == 1

\* Lines 240-261 for the segmenter's mask and a w x h frame: whether the
\* mask was resampled, the buffer read at line 261 and finalMask.
ReconcileMask(mask, w, h) ==
  LET resampled == NeedsResample(mask.width, mask.height, w, h)
      sized == GetImageData(IF resampled THEN Resample(mask, w, h) ELSE mask, w, h)
  IN  [resampled |-> resampled, sized |-> sized,
       final |-> BlurMask(sized, MaskBlurRadius)]

FinalMask(mask, w, h) == ReconcileMask(mask, w, h).final

\* The pixels of one cycle of processFrame for the frame `video` and the
\* segmenter's mask `mask`.
ProcessFramePixels(video, enhance, mask, bgPresent, bg) ==
  Compose(video.width, video.height,
          ForegroundFrame(video, OffscreenFrame(video, enhance)),
          FinalMask(mask, video.width, video.height), bgPresent, bg)

----------------------------------------------------------------------------
(* Inputs of the pixel functions *)

\* palette[seed], palette[seed + stride], ... (cyclically) for n pixels.
Pattern(palette, seed, stride, n) ==
  [i \in 0..(n - 1) |-> palette[((seed + i * stride) % Len(palette)) + 1]]

VideoPalette == << <<64, 128, 200, 255>>, <<255, 0, 10, 255>> >>
MaskPalette  == << <<0, 0, 0, 0>>, <<0, 0, 0, 128>>, <<0, 0, 0, 255>> >>
BgPalette    == << <<240, 10, 10, 255>>, <<10, 240, 10, 255>>,
                   <<10, 10, 240, 128>>, <<90, 90, 90, 0>> >>
BlurPalette  == << <<0, 0, 0, 0>>, <<10, 20, 30, 100>>, <<7, 7, 7, 255>> >>
Gammas       == {<<1, 1>>, <<3, 2>>, <<2, 1>>}
GammaAlphas  == {0, 77, 255}

Images(palette, w, h) ==
  {ImageDataOf(w, h, Pattern(palette, seed, stride, w * h)) :
     seed \in 0..(Len(palette) - 1), stride \in 0..1}

GammaInputs ==
  UNION {{[img |-> ImageDataOf(n, 1,
                     [i \in 0..(n - 1) |->
                        <<(v + i) % 256, (3 * v + i) % 256, 255 - v, a>>]),
           gamma |-> g] : v \in 0..255, a \in GammaAlphas, g \in Gammas}
         : n \in 1..MaxGammaPixels}

BlurInputs ==
  UNION {[img : Images(BlurPalette, w, h), radius : 0..MaxRadius]
         : w \in 1..MaxBlurWidth, h \in 1..MaxBlurHeight}

BgImages ==
  UNION {Images(BgPalette, bw, bh) : bw \in 1..MaxBgWidth, bh \in 1..MaxBgHeight}

\* Masks of every size up to MaxMask x MaxMask.
MaskImages ==
  UNION {Images(MaskPalette, mw, mh) : mw \in 1..MaxMask, mh \in 1..MaxMask}

\* Frames with a mask of their own size, with and without a background; and
\* frames with a mask of any size, without a background.
ComposeInputs ==
  UNION {[video : Images(VideoPalette, w, h), enhance : {"none", "gamma"},
          mask : Images(MaskPalette, w, h), bgPresent : {TRUE}, bg : BgImages]
         \cup
         [video : Images(VideoPalette, w, h), enhance : {"none", "gamma"},
          mask : Images(MaskPalette, w, h), bgPresent : {FALSE},
          bg : {ImageDataOf(1, 1, Pattern(BgPalette, 0, 0, 1))}]
         \cup
         [video : Images(VideoPalette, w, h), enhance : {"none"},
          mask : MaskImages, bgPresent : {FALSE},
          bg : {ImageDataOf(1, 1, Pattern(BgPalette, 0, 0, 1))}]
         : w \in 1..MaxCanvas, h \in 1..MaxCanvas}

NoImage == ImageDataOf(1, 1, Pattern(MaskPalette, 0, 0, 1))
NoGammaIn == [img |-> NoImage, gamma |-> <<1, 1>>]
NoBlurIn == [img |-> NoImage, radius |-> 0]
NoCompIn == [video |-> NoImage, enhance |-> "none", mask |-> NoImage,
             bgPresent |-> FALSE, bg |-> NoImage]
NoMask == [resampled |-> FALSE, sized |-> NoImage, final |-> NoImage]

\* In the component's behaviours the pixel study is idle.
PixelIdle ==
  /\ pxOp = "idle"
  /\ gammaIn = NoGammaIn
  /\ blurIn = NoBlurIn
  /\ compIn = NoCompIn
  /\ pxOut = NoImage
  /\ pxMask = NoMask

Init == ComponentInit /\ PixelIdle

\* One function and one input for it.
PixelInit ==
  /\ ComponentInit
  /\ pxOut = NoImage
  /\ pxMask = NoMask
  /\ \/ pxOp = "gamma" /\ gammaIn \in GammaInputs
        /\ blurIn = NoBlurIn /\ compIn = NoCompIn
     \/ pxOp = "blur" /\ blurIn \in BlurInputs
        /\ gammaIn = NoGammaIn /\ compIn = NoCompIn
     \/ pxOp = "compose" /\ compIn \in ComposeInputs
        /\ gammaIn = NoGammaIn /\ blurIn = NoBlurIn

ApplyGamma ==
  /\ pxOp = "gamma"
  /\ pxOp' = "gammaOut"
  /\ pxOut' = EnhanceGamma(gammaIn.img, gammaIn.gamma[1], gammaIn.gamma[2])
  /\ UNCHANGED <<componentVars, gammaIn, blurIn, compIn, pxMask>>

ApplyBlur ==
  /\ pxOp = "blur"
  /\ pxOp' = "blurOut"
  /\ pxOut' = BlurMask(blurIn.img, blurIn.radius)
  /\ UNCHANGED <<componentVars, gammaIn, blurIn, compIn, pxMask>>

ApplyCompose ==
  /\ pxOp = "compose"
  /\ pxOp' = "composeOut"
  /\ pxOut' = ProcessFramePixels(compIn.video, compIn.enhance, compIn.mask,
                                 compIn.bgPresent, compIn.bg)
  /\ pxMask' = ReconcileMask(compIn.mask, compIn.video.width, compIn.video.height)
  /\ UNCHANGED <<componentVars, gammaIn, blurIn, compIn>>

PixelNext ==
  \/ ApplyGamma
  \/ ApplyBlur
  \/ ApplyCompose

PixelSpec == PixelInit /\ [][PixelNext]_vars

----------------------------------------------------------------------------

Next ==
  \/ MountEffects
  \/ GetUserMediaResolve
  \/ GetUserMediaReject
  \/ PlayResolve
  \/ PlayReject
  \/ LoadedMetadata
  \/ FrameDecoded
  \/ LoadedData
  \/ NewFrame
  \/ \E u \in BackgroundUrls : SelectBackground(u)
  \/ \E i \in 1..Len(images) : BgOnLoad(i)
  \/ \E i \in 1..Len(images) : BgOnError(i)
  \/ BackendResolve
  \/ BackendReject
  \/ CreateSegmenterResolve
  \/ CreateSegmenterReject
  \/ ClickToggle
  \/ Tick
  \/ \E c \in cycles : \E shape \in ResultShapes : SegmentResolve(c, shape)
  \/ \E c \in cycles : SegmentReject(c)
  \/ \E c \in cycles : \E got \in BOOLEAN : MaskResolve(c, got)
  \/ \E c \in cycles : MaskReject(c)
  \/ UnmountCommit
  \/ UnmountCleanup

Spec == Init /\ [][Next]_vars

----------------------------------------------------------------------------

\* The gate of section 4.4 over the component's state.
canRun == modelStatus = "ready" /\ videoReadyRef /\ running

----------------------------------------------------------------------------
(* Claims *)

\* A step in which the cycle c leaves processFrame (its finally block runs).
Finishes(c) == c \in cycles /\ \A d \in cycles' : d.id # c.id

\* The steps of a cycle that ends without drawing: an early return or the
\* catch block.  A cycle that draws changes the canvas to its own composite.
EndsWithoutDraw(c) == Finishes(c) /\ canvas' # c.id

\* A step in which the cycle c composites and draws.
Draws(c) == Finishes(c) /\ canvas' = c.id

\* A step in which processFrame passes its guards and starts a cycle.
StartsCycle == nCycles' > nCycles

\* C1: a tick starts an inference cycle only while modelStatus = ready,
\* cameraReady and runRequested all hold and the component is mounted; no
\* cycle is started after a user stop or after teardown.
C1_CycleOnlyWhenGateOpen ==
  [][StartsCycle => (canRun /\ runningRef /\ phase = "mounted")]_vars

C1_Witness == phase = "unmounted" /\ nCycles > 0 /\ nCycles < MaxCycles /\ rafCount = 0

\* C2: whenever the gate is open on the mounted component, the frame loop is
\* armed, whatever the order in which the three signals became true.
C2_GateOpenLoopArmed == (phase = "mounted" /\ canRun) => rafCount > 0

\* C3: a cycle draws on the output canvas only while the run flag is still
\* set and the component is mounted; a result that resolves after a stop or
\* after teardown is dropped.
C3_NoDrawAfterStop ==
  [][(canvas' # canvas /\ canvas' # Blank) => (runningRef /\ phase = "mounted")]_vars

\* C4: a cycle that ends without drawing (rejected inference, missing result
\* or mask) leaves the loop as armed as it was and, on the mounted component
\* with the gate still open, processFrame's guards pass on the next tick;
\* every tick that starts a cycle re-arms the loop.
C4_FailureNotFatal ==
  [][/\ \A c \in cycles :
          EndsWithoutDraw(c) =>
            /\ rafCount' = rafCount
            /\ (rafCount > 0 /\ phase = "mounted" /\ canRun') => ProcessFrameGuard'
     /\ StartsCycle => rafCount' > 0]_vars

C4_Witness ==
  /\ canRun /\ rafCount > 0
  /\ canvas = Blank
  /\ \E c \in cycles : cycles = {c} /\ c.id = 2 /\ c.prev = Blank

\* C5: when a cycle ends without drawing, the output canvas shows what it
\* showed before that cycle started (or the composite of another cycle that
\* drew in the meantime): the skipped cycle neither draws nor clears it.
C5_SkipKeepsDisplay ==
  [][\A c \in cycles :
       EndsWithoutDraw(c) =>
         \/ canvas' = c.prev
         \/ (canvas' # Blank /\ canvas' # c.id)]_vars

\* C6: the number of open tf.engine() scopes equals the number of cycles in
\* flight (zero when none is), on every exit path of a cycle.
C6_ScopesMatchCycles == Len(scopeStack) = Cardinality(cycles)

C6_Witness ==
  /\ nCycles = MaxCycles
  /\ Cardinality(cycles) = 1
  /\ Len(scopeStack) = 1

\* C7: the segmenter is never disposed while the component is mounted, never
\* disposed twice, and disposed exactly once when teardown and initModel are
\* both over, whether unmount came before or after createSegmenter resolved.
C7_SegmenterDisposedOnce ==
  /\ disposeCalls <= 1
  /\ phase = "mounted" => disposeCalls = 0
  /\ disposeCalls = 1 => segCreated
  /\ (phase = "unmounted" /\ segCreated) => disposeCalls = 1

C7_Witness ==
  /\ phase = "unmounted" /\ segCreated /\ disposeCalls = 1
  /\ modelStatus = "loading"

\* C8: once teardown is over, a MediaStream that getUserMedia resolved with
\* has had its tracks stopped exactly once.
C8_StreamStoppedOnce ==
  /\ streamStops <= 1
  /\ (phase = "unmounted" /\ stream # 0) => streamStops = 1

\* C9: no animation-frame callback of the loop is pending while the gate is
\* false, and the loop goes from unarmed to armed only in a step in which
\* the gate goes from false to true.
C9_NotArmedWhileGateFalse ==
  /\ [](rafCount > 0 => canRun)
  /\ [][(rafCount = 0 /\ rafCount' > 0) => (~canRun /\ canRun')]_vars

C9_Witness ==
  /\ phase = "mounted" /\ modelStatus = "ready" /\ videoReadyRef /\ ~running
  /\ nCycles > 0 /\ rafCount = 0

\* C10: modelStatus changes only along idle -> loading, loading -> ready and
\* loading -> error.
C10_ModelTransitions ==
  [][modelStatus' # modelStatus =>
       <<modelStatus, modelStatus'>> \in
         {<<"idle", "loading">>, <<"loading", "ready">>, <<"loading", "error">>}]_vars

C10_Witness == modelStatus = "error" /\ modelPc = "failed" /\ segCreated = FALSE /\ phase = "mounted"

\* C11: cameraReady goes false -> true only when the loadeddata event is
\* dispatched, goes true -> false exactly when the camera is stopped, and
\* after teardown it is false and stays false.
C11_CameraReadyTransitions ==
  [][/\ (~videoReadyRef /\ videoReadyRef') =>
          (loadedDataEvent = "queued" /\ loadedDataEvent' = "fired")
     /\ (videoReadyRef /\ ~videoReadyRef') => streamStops' > streamStops
     /\ streamStops' > streamStops => ~videoReadyRef'
     /\ phase = "unmounted" => ~videoReadyRef']_vars

\* C12: the cached background is always absent or a completely loaded image;
\* it changes only in the step in which a pending load completes (to that
\* image) or fails (to absent), so a new selection alone leaves the previous
\* image cached.
C12_BackgroundSwapOnCompletion ==
  /\ [](bgImageRef # 0 =>
          (bgImageRef \in 1..Len(images) /\ images[bgImageRef].state = "loaded"))
  /\ [][/\ bgImageRef' # bgImageRef =>
             (\E k \in 1..Len(images) :
                images[k].state = "loading" /\ images'[k].state # "loading")
          /\ (\A i \in 1..Len(images) :
               (images[i].state = "loading" /\ images'[i].state = "loaded")
                 => bgImageRef' = i)
          /\ (\A j \in 1..Len(images) :
               (images[j].state = "loading" /\ images'[j].state = "failed")
                 => bgImageRef' = 0)]_vars

C12_Witness ==
  /\ bgImageRef # 0
  /\ images[bgImageRef].url # bgUrl
  /\ \E i \in 1..Len(images) : images[i].state = "loading" /\ images[i].url = bgUrl

----------------------------------------------------------------------------
(* Claims about the pixel functions, checked under PixelSpec *)

Composed == pxOp = "composeOut"
CanvasW == compIn.video.width
CanvasH == compIn.video.height
CanvasPixels == 0..(CanvasW * CanvasH - 1)
RGB(px) == <<px[1], px[2], px[3]>>
\* The alpha of the mask handed to compositing, at pixel i.
MaskAlpha(i) == pxMask.final.data[i][4]

\* The fallback colour of section 4.3, neutral light gray (#f0f0f0).
NeutralLightGray == <<240, 240, 240>>

\* C13: with the background absent, the output RGB is the neutral light gray
\* fallback colour at every pixel whose mask alpha is 0.
C13_FallbackIsLightGray ==
  (Composed /\ ~compIn.bgPresent) =>
    \A i \in CanvasPixels :
      MaskAlpha(i) = 0 => RGB(pxOut.data[i]) = NeutralLightGray

\* C14: the composited output has the frame's width and height and
\* alpha = 255 at every pixel, for every background, present or absent,
\* opaque or with transparent pixels.
C14_OutputOpaque ==
  Composed =>
    /\ pxOut.width = CanvasW /\ pxOut.height = CanvasH
    /\ DOMAIN pxOut.data = CanvasPixels
    /\ \A i \in CanvasPixels : pxOut.data[i][4] = 255

\* C15: at every pixel and for each of R, G, B, the output is
\* fg * alpha / 255 + bg * (255 - alpha) / 255 (as an 8-bit value), alpha the
\* mask alpha, fg the video pixel and bg the background or fallback pixel
\* drawn there.
C15_LinearBlend ==
  Composed =>
    \A i \in CanvasPixels : \A c \in 1..3 :
      pxOut.data[i][c] =
        RoundDiv(compIn.video.data[i][c] * MaskAlpha(i)
                   + Backdrop(CanvasW, CanvasH, compIn.bgPresent, compIn.bg)[i][c]
                       * (255 - MaskAlpha(i)),
                 255)

\* C16: with mask alpha 255 everywhere and the gamma enhancement selected,
\* the output RGB is the RGB of the gamma-corrected frame at every pixel.
C16_EnhancedForeground ==
  (Composed /\ compIn.enhance = "gamma"
            /\ \A i \in CanvasPixels : MaskAlpha(i) = 255) =>
    \A i \in CanvasPixels :
      RGB(pxOut.data[i]) =
        RGB(EnhanceGamma(compIn.video, DefaultGammaNum, DefaultGammaDen).data[i])

\* Cover scaling: scale = max(w / bw, h / bh), the scaled image centred.  The
\* source pixel under the centre of destination pixel (x, y).
CoverIndex(x, y, w, h, bw, bh) ==
  IF w * bh >= h * bw
    THEN Min2(bh - 1, ((2 * y + 1 - h) * bw + bh * w) \div (2 * w)) * bw
           + Min2(bw - 1, ((2 * x + 1) * bw) \div (2 * w))
    ELSE Min2(bh - 1, ((2 * y + 1) * bh) \div (2 * h)) * bw
           + Min2(bw - 1, ((2 * x + 1 - w) * bh + bw * h) \div (2 * h))

\* C17: with mask alpha 0 everywhere and a background present, the output RGB
\* at every pixel is the background scaled with cover semantics.
C17_BackgroundCover ==
  (Composed /\ compIn.bgPresent
            /\ \A i \in CanvasPixels : MaskAlpha(i) = 0) =>
    \A i \in CanvasPixels :
      RGB(pxOut.data[i]) =
        RGB(CanvasPixel(compIn.bg.data[
              CoverIndex(i % CanvasW, i \div CanvasW, CanvasW, CanvasH,
                         compIn.bg.width, compIn.bg.height)]))

Blurred == pxOp = "blurOut"
BlurPixels == 0..(blurIn.img.width * blurIn.img.height - 1)

\* C18: blurMask with radius 0 returns a buffer of the input's width and
\* height whose alpha equals the input alpha at every pixel.
C18_BlurRadiusZeroIdentity ==
  (Blurred /\ blurIn.radius = 0) =>
    /\ pxOut.width = blurIn.img.width /\ pxOut.height = blurIn.img.height
    /\ DOMAIN pxOut.data = BlurPixels
    /\ \A i \in BlurPixels : pxOut.data[i][4] = blurIn.img.data[i][4]

C18_Witness ==
  /\ Blurred /\ blurIn.radius = 0
  /\ blurIn.img.width * blurIn.img.height >= 4
  /\ \E i, j \in BlurPixels : blurIn.img.data[i][4] # blurIn.img.data[j][4]
  /\ \E i \in BlurPixels : blurIn.img.data[i][1] # blurIn.img.data[i][4]

\* The in-bounds pixels of the (2r+1) x (2r+1) window centred on pixel i.
InBoundsWindow(i, w, h, r) ==
  {j \in 0..(w * h - 1) :
     /\ (j % w) - (i % w) \in (0 - r)..r
     /\ (j \div w) - (i \div w) \in (0 - r)..r}

RECURSIVE AlphaSum(_, _)
AlphaSum(img, js) ==
  IF js = {} THEN 0
  ELSE LET j == CHOOSE j \in js : TRUE
       IN  img.data[j][4] + AlphaSum(img, js \ {j})

\* C19: blurMask's output alpha at every pixel is the mean of the input
\* alpha over the in-bounds pixels of the window, the sum divided by the
\* number of in-bounds samples, as the nearest 8-bit value (halves up); the
\* output has the input's dimensions and zero colour channels.
C19_BlurIsClippedMean ==
  Blurred =>
    /\ pxOut.width = blurIn.img.width /\ pxOut.height = blurIn.img.height
    /\ DOMAIN pxOut.data = BlurPixels
    /\ \A i \in BlurPixels :
         LET js == InBoundsWindow(i, blurIn.img.width, blurIn.img.height,
                                  blurIn.radius)
             n  == Cardinality(js)
             sm == AlphaSum(blurIn.img, js)
             o  == pxOut.data[i][4]
         IN  /\ RGB(pxOut.data[i]) = <<0, 0, 0>>
             /\ 2 * sm - n < 2 * o * n
             /\ 2 * o * n <= 2 * sm + n

C19_Witness ==
  /\ Blurred /\ blurIn.radius = 1
  /\ blurIn.img.width = 3 /\ blurIn.img.height = 2
  /\ pxOut.data[0][4] # blurIn.img.data[0][4]
  /\ pxOut.data[0][4] # pxOut.data[1][4]

\* C20: enhanceGamma with gamma = 1 leaves R, G and B of every pixel as they
\* were, for every channel value 0..255.
C20_GammaOneIdentity ==
  (pxOp = "gammaOut" /\ gammaIn.gamma = <<1, 1>>) =>
    \A i \in DOMAIN gammaIn.img.data :
      RGB(pxOut.data[i]) = RGB(gammaIn.img.data[i])

C20_Witness ==
  /\ pxOp = "gammaOut" /\ gammaIn.gamma = <<1, 1>>
  /\ gammaIn.img.width = 2
  /\ RGB(pxOut.data[0]) = <<255, 253, 0>>

----------------------------------------------------------------------------
(* Claims about failures, overlapping cycles and teardown, checked under Spec *)

\* initModel has ended in its catch block.
ModelInitFailed == modelPc = "failed"

\* C22: when model initialization fails, modelStatus becomes error and the
\* error message is set in the same step, the component goes on (nothing
\* escapes initModel), and from then on no cycle is started: the status stays
\* error and no segmenter exists, there being no further initialization.
C22_ModelInitFailureSurfaced ==
  /\ [](ModelInitFailed => (modelStatus = "error" /\ segmenterRef = 0))
  /\ [][/\ (~ModelInitFailed /\ ModelInitFailed') =>
              (modelStatus' = "error" /\ errorMessage' = "model" /\ phase' = phase)
        /\ ModelInitFailed => (ModelInitFailed' /\ ~StartsCycle)]_vars

C22_Witness ==
  /\ ModelInitFailed /\ phase = "mounted"
  /\ videoReadyRef /\ videoWidth # 0 /\ cameraPc = "done"
  /\ errorMessage = "model"

\* C23: the frame a cycle composites under its mask is the frame of the tick
\* that started it, the one passed to the segmenter: when the cycle draws
\* from the video element, the element has shown no newer frame since.
C23_DrawUsesTickInputs ==
  [][\A c \in cycles : Draws(c) => ~c.staleFrame]_vars

\* A tick that starts a cycle.
StartCycleStep == Tick /\ StartsCycle

\* C24: cycles may overlap.  No tick waits for the cycles in flight: whenever
\* the loop is armed and the guards of processFrame's lines 176-185 hold, a
\* tick can start a cycle, whatever is in flight; and a cycle awaiting its
\* segmentation can draw whatever has been drawn since its tick (no
\* generation check).
C24_CyclesMayOverlap ==
  /\ (/\ rafCount > 0 /\ nCycles < MaxCycles
      /\ runningRef /\ domRefs /\ segmenterRef # 0 /\ videoWidth # 0)
       => ENABLED StartCycleStep
  /\ \A c \in cycles :
       c.pc = "segment" => ENABLED (SegmentResolve(c, "imageData") /\ Draws(c))

\* Cycle N+1 has drawn and the canvas now shows the composite of an earlier
\* cycle, drawn after it.
C24_Witness ==
  /\ canvas # Blank /\ canvas < maxDrawn
  /\ cycles = {} /\ scopeStack = <<>>

\* getUserMedia was rejected: initCamera ended in its catch block before the
\* stream was attached to the video.
AcquisitionFailed == cameraPc = "failed" /\ ~srcObject

\* C25: when getUserMedia rejects, the error message is set, the acquisition
\* is not tried again, videoReadyRef stays false for ever, and no cycle is
\* started, whatever modelStatus and running are.
C25_CameraFailureSurfaced ==
  /\ [](AcquisitionFailed =>
          (~videoReadyRef /\ stream = 0 /\ videoWidth = 0 /\ rafCount = 0))
  /\ [][/\ (cameraPc = "getUserMedia" /\ cameraPc' = "failed") =>
              errorMessage' = "camera"
        /\ (errorMessage # "camera" /\ errorMessage' = "camera") =>
              cameraPc' = "failed"
        /\ AcquisitionFailed => (AcquisitionFailed' /\ ~StartsCycle)]_vars

C25_Witness ==
  /\ AcquisitionFailed /\ phase = "mounted"
  /\ modelStatus = "ready" /\ running /\ runningRef

\* C27: the scope a cycle closes in its finally block is the scope the same
\* cycle opened: when a cycle finishes, the innermost open scope is its own.
C27_ScopeClosedIsOwn ==
  [][\A c \in cycles :
       Finishes(c) =>
         (Len(scopeStack) > 0 /\ scopeStack[Len(scopeStack)] = c.id)]_vars

\* C28: once no background load is pending, bgImageRef.current is the Image
\* of the most recent selection, or null if that Image failed to load.
C28_LatestSelectionWins ==
  (/\ Len(images) > 0
   /\ \A i \in 1..Len(images) : images[i].state # "loading") =>
    bgImageRef = (IF images[Len(images)].state = "loaded" THEN Len(images) ELSE 0)

\* C29: no inference call is in flight on a segmenter that has been disposed.
C29_NoUseAfterDispose ==
  disposeCalls > 0 => \A c \in cycles : c.pc # "segment"

\* C30: at most one requestAnimationFrame callback of the loop is pending; a
\* commit that changes modelStatus or running on the mounted component leaves
\* exactly the callback of the loop it arms, if it arms one; and a step
\* starts at most one cycle.
C30_AtMostOneCallback ==
  /\ [](rafCount <= 1)
  /\ [][/\ (phase = "mounted" /\ (modelStatus' # modelStatus \/ running' # running)) =>
              rafCount' = (IF LoopGate(modelStatus', videoReadyRef', running') THEN 1 ELSE 0)
        /\ nCycles' <= nCycles + 1]_vars

\* The loop was armed and ticking, Stop cancelled its callback, and Start
\* armed it again.
C30_Witness ==
  /\ phase = "mounted" /\ canRun /\ rafCount = 1 /\ loopActive
  /\ nCycles > 0 /\ cycles = {} /\ canvas = Blank /\ maxDrawn = 0

----------------------------------------------------------------------------
(* Claims about the mask reconciliation and enhanceGamma, under PixelSpec *)

\* C21: the mask handed to compositing has the frame's width and height; the
\* mask is resampled if and only if its dimensions differ from the frame's
\* (otherwise the buffer read is the mask itself); and in either case the
\* mask composited is the radius-1 box blur of the buffer so obtained.
C21_MaskReconciled ==
  Composed =>
    /\ pxMask.final.width = CanvasW /\ pxMask.final.height = CanvasH
    /\ DOMAIN pxMask.final.data = CanvasPixels
    /\ pxMask.sized.width = CanvasW /\ pxMask.sized.height = CanvasH
    /\ pxMask.resampled <=>
         (compIn.mask.width # CanvasW \/ compIn.mask.height # CanvasH)
    /\ ~pxMask.resampled => pxMask.sized = compIn.mask
    /\ \A i \in CanvasPixels :
         LET js == InBoundsWindow(i, CanvasW, CanvasH, 1)
             n  == Cardinality(js)
             sm == AlphaSum(pxMask.sized, js)
             o  == pxMask.final.data[i][4]
         IN  2 * sm - n < 2 * o * n /\ 2 * o * n <= 2 * sm + n

C21_Witness ==
  /\ Composed /\ pxMask.resampled
  /\ compIn.mask.width = 2 /\ compIn.mask.height = 1
  /\ CanvasW = 2 /\ CanvasH = 2
  /\ \E i, j \in CanvasPixels : pxMask.sized.data[i][4] # pxMask.sized.data[j][4]
  /\ \E i \in CanvasPixels : pxMask.final.data[i][4] # pxMask.sized.data[i][4]

\* C26: enhanceGamma returns a buffer of the same dimensions and pixels, with
\* the alpha of every pixel as it was, for every gamma.
C26_GammaKeepsAlpha ==
  pxOp = "gammaOut" =>
    /\ pxOut.width = gammaIn.img.width /\ pxOut.height = gammaIn.img.height
    /\ DOMAIN pxOut.data = DOMAIN gammaIn.img.data
    /\ \A i \in DOMAIN pxOut.data :
         /\ Len(pxOut.data[i]) = 4
         /\ pxOut.data[i][4] = gammaIn.img.data[i][4]

C26_Witness ==
  /\ pxOp = "gammaOut" /\ gammaIn.gamma = <<3, 2>>
  /\ gammaIn.img.width = 2
  /\ \A i \in DOMAIN pxOut.data :
       /\ pxOut.data[i][4] = 77
       /\ RGB(pxOut.data[i]) # RGB(gammaIn.img.data[i])

====
